---- MODULE Spec2Model ----
(***************************************************************************)
(* QuanticDaily newsletter: the subscriber store (lib/firestore), the      *)
(* /api/subscribe and /api/unsubscribe routes that call it, and the        *)
(* requests in flight against the Firestore collection 'quantic-emails'.   *)
(*                                                                         *)
(* Strings are TLA+ strings; TLC evaluates Len, \o and SubSeq on them, so  *)
(* String.prototype.includes and the e-mail pattern are computed on the    *)
(* characters, as the code computes them.                                  *)
(***************************************************************************)
EXTENDS Integers, Sequences, FiniteSets, TLC

VARIABLES
  env,     \* process.env of the web app: a function, UNSUBSCRIBE_SECRET set or not
  store,   \* the collection: document id -> document data
  now,     \* the clock Timestamp.now() reads
  req,     \* per worker: the request it is handling and where the handler stands
  prev,    \* the single worker's previous request (at most one summary)
  run,     \* one execution of the newsletter script: where it stands, its log
  sched    \* the `schedule` command of newsletter_scheduler.js: clock and timer

vars == <<env, store, now, req, prev, run, sched>>

----------------------------------------------------------------------------
(* Bounds of the model *)

MaxTime == 1          \* the clock runs 0..MaxTime
MaxDocs == 2          \* document ids are 1..MaxDocs

DocIds == 1..MaxDocs

SeqProcs == {0}       \* a single worker: its requests execute one at a time
Procs    == {1, 2}    \* workers whose requests interleave at the store calls
AllProcs == SeqProcs \cup Procs

NoFail  == {FALSE}    \* the store answers every call
MayFail == BOOLEAN    \* a store call may throw

----------------------------------------------------------------------------
(* Inputs *)

EmailA == "a@b.c"
EmailB == "d+e@b.c"
ValidEmails == {EmailA, EmailB}
BadEmails   == {"a@b", "a b@c.d", ""}

DevSecret == "development-secret-key"
SetSecret == "k"

\* the characters of s, those a URL gives a meaning to ("+", "%", "&", "#")
\* spelled with "_" and a letter, "_" itself doubled: one-to-one
RECURSIVE Spelled(_)
Spelled(s) ==
  IF s = "" THEN ""
  ELSE LET c == SubSeq(s, 1, 1) IN
       (CASE c = "+" -> "_p" [] c = "%" -> "_c" [] c = "&" -> "_a"
          [] c = "#" -> "_h" [] c = "_" -> "__" [] OTHER -> c)
         \o Spelled(SubSeq(s, 2, Len(s)))

HexDigits(s) ==
  IF \A i \in 1..Len(s) : SubSeq(s, i, i) \notin {"+", "%", "&", "#", "_"}
    THEN s
    ELSE Spelled(s)

\* crypto.createHash('sha256').update(s).digest('hex'): a collision-free digest
\* of the whole input string, never the empty string, written in characters
\* that pass through a URL unchanged (as hexadecimal digits do).
Sha256Hex(s) == "sha256(" \o HexDigits(s) \o ")"

\* JSON bodies: unparsable, {} and {email}
Bodies(emails) ==
  {[json |-> FALSE, body |-> <<>>], [json |-> TRUE, body |-> <<>>]}
    \cup {[json |-> TRUE, body |-> [email |-> e]] : e \in emails}

\* the tokens a client may present: for each address, the digest under the
\* configured secret and under the development secret, and the empty string
TokenInputs(emails) ==
  {Sha256Hex(e \o s) : e \in emails \cup {EmailB}, s \in {SetSecret, DevSecret}} \cup {""}

\* query strings: each of token and email present or missing
Queries(emails) ==
  {<<>>}
    \cup {[token |-> t] : t \in TokenInputs(emails)}
    \cup {[email |-> e] : e \in emails}
    \cup {[token |-> t, email |-> e] : t \in TokenInputs(emails), e \in emails}

----------------------------------------------------------------------------
(* Strings *)

\* String.prototype.includes
Includes(s, sub) ==
  \E i \in 0..(Len(s) - Len(sub)) : SubSeq(s, i + 1, i + Len(sub)) = sub

CharAt(s, i) == SubSeq(s, i, i)

\* the class [^\s@]
NotSpaceNorAt(c) == c \notin {" ", "\t", "\n", "\r", "@"}

\* slip: the pattern does not ask for the dot and the suffix
emailRegexTestNoSuffix(s) ==
  \E at \in 2..(Len(s) - 1) :
    /\ CharAt(s, at) = "@"
    /\ \A i \in (1..Len(s)) \ {at} : NotSpaceNorAt(CharAt(s, i))

\* /^[^\s@]+@[^\s@]+\.[^\s@]+$/.test(s)
emailRegexTest(s) ==
  \E at \in 2..(Len(s) - 3) :
    /\ CharAt(s, at) = "@"
    /\ \A i \in (1..Len(s)) \ {at} : NotSpaceNorAt(CharAt(s, i))
    /\ \E dot \in (at + 2)..(Len(s) - 1) : CharAt(s, dot) = "."

\* String.prototype.indexOf for one character, counted from 1; 0 when absent
IndexOf(s, c) ==
  IF \E i \in 1..Len(s) : CharAt(s, i) = c
    THEN CHOOSE i \in 1..Len(s) :
           CharAt(s, i) = c /\ \A j \in 1..(i - 1) : CharAt(s, j) # c
    ELSE 0

\* the characters encodeURIComponent escapes, among those of the inputs, with
\* their escapes; letters, digits and - _ . ! ~ * ' ( ) are left alone
PercentCodes ==
  {<<"@", "%40">>, <<"+", "%2B">>, <<" ", "%20">>, <<"%", "%25">>,
   <<"&", "%26">>, <<"=", "%3D">>, <<"?", "%3F">>, <<"#", "%23">>,
   <<"/", "%2F">>, <<":", "%3A">>}

\* slip: the value is put into the URL as it is
encodeURIComponentOmitted(s) == s

RECURSIVE encodeURIComponent(_)
encodeURIComponent(s) ==
  IF s = "" THEN ""
  ELSE LET c == CharAt(s, 1) IN
       (IF \E pc \in PercentCodes : pc[1] = c
          THEN (CHOOSE pc \in PercentCodes : pc[1] = c)[2]
          ELSE c)
         \o encodeURIComponent(SubSeq(s, 2, Len(s)))

\* URLSearchParams decoding of a name or a value: "+" is a space, %XX the
\* character it escapes
RECURSIVE formDecode(_)
formDecode(s) ==
  IF s = "" THEN ""
  ELSE IF CharAt(s, 1) = "+"
    THEN " " \o formDecode(SubSeq(s, 2, Len(s)))
  ELSE IF /\ CharAt(s, 1) = "%" /\ Len(s) >= 3
          /\ \E pc \in PercentCodes : pc[2] = SubSeq(s, 1, 3)
    THEN (CHOOSE pc \in PercentCodes : pc[2] = SubSeq(s, 1, 3))[1]
           \o formDecode(SubSeq(s, 4, Len(s)))
  ELSE CharAt(s, 1) \o formDecode(SubSeq(s, 2, Len(s)))

\* String.prototype.split on one character
RECURSIVE Split(_, _)
Split(s, sep) ==
  LET i == IndexOf(s, sep) IN
  IF i = 0 THEN <<s>>
  ELSE <<SubSeq(s, 1, i - 1)>> \o Split(SubSeq(s, i + 1, Len(s)), sep)

\* the query of a URL: what follows the first "?"
QueryOf(url) ==
  IF IndexOf(url, "?") = 0 THEN ""
  ELSE SubSeq(url, IndexOf(url, "?") + 1, Len(url))

ParamName(piece) ==
  formDecode(IF IndexOf(piece, "=") = 0 THEN piece
             ELSE SubSeq(piece, 1, IndexOf(piece, "=") - 1))

ParamValue(piece) ==
  formDecode(IF IndexOf(piece, "=") = 0 THEN ""
             ELSE SubSeq(piece, IndexOf(piece, "=") + 1, Len(piece)))

\* new URL(url).searchParams.get(name): the first value under the name; null,
\* which the callers do not tell from "", is given as ""
searchParamsGet(url, name) ==
  LET ps   == Split(QueryOf(url), "&")
      hits == {i \in 1..Len(ps) : ps[i] # "" /\ ParamName(ps[i]) = name}
  IN  IF hits = {} THEN ""
      ELSE ParamValue(ps[CHOOSE i \in hits : \A j \in hits : i <= j])

\* Date.prototype.toISOString of a clock reading
toISOString(t) == "1970-01-01T00:00:0" \o ToString(t) \o ".000Z"

MsgAlreadySubscribed   == "This email is already subscribed"
MsgResubscribed        == "Successfully resubscribed to QuanticDaily!"
MsgSubscribed          == "Successfully subscribed to QuanticDaily!"
MsgSubscribeFailed     == "Failed to subscribe. Please try again."
MsgNotFound            == "Email address not found in our subscriber list"
MsgAlreadyUnsubscribed == "This email is already unsubscribed"
MsgUnsubscribed        == "Successfully unsubscribed from QuanticDaily!"
MsgUnsubscribeFailed   == "Failed to unsubscribe. Please try again."
MsgInvalidToken        == "Invalid unsubscribe token"
MsgInvalidEmail        == "Please provide a valid email address"
MsgMissingParam        == "Missing token or email parameter"
MsgInternal            == "Internal server error"

----------------------------------------------------------------------------
(* lib/firestore *)

\* process.env.UNSUBSCRIBE_SECRET || 'development-secret-key'
webSecret ==
  IF "UNSUBSCRIBE_SECRET" \in DOMAIN env /\ env["UNSUBSCRIBE_SECRET"] # ""
    THEN env["UNSUBSCRIBE_SECRET"]
    ELSE DevSecret

\* slip: the development secret is used whatever the environment says
generateUnsubscribeTokenDevOnly(email) == Sha256Hex(email \o DevSecret)

generateUnsubscribeToken(email) == Sha256Hex(email \o webSecret)

\* query(collection, where('email', '==', email)): the matching documents;
\* docs[0] is the first in document-id order
QueryByEmail(st, email) == {id \in DOMAIN st : st[id].email = email}

FirstDoc(ids) == CHOOSE id \in ids : \A other \in ids : id <= other

\* slip: the query never matches (a wrong field name in where())
getSubscriberByEmailNoMatch(st, email, throws) == {}

\* getSubscriberByEmail: at most one {id, ...data}; a throwing getDocs is
\* caught and answered as null
getSubscriberByEmail(st, email, throws) ==
  IF throws \/ QueryByEmail(st, email) = {}
    THEN {}
    ELSE LET id == FirstDoc(QueryByEmail(st, email))
         IN  {[id |-> id, data |-> st[id]]}

\* updateDoc(doc(db, COLLECTION_NAME, id), fields): the named fields are
\* overwritten or added, the others kept
updateDoc(st, id, fields) ==
  [st EXCEPT ![id] =
     [k \in DOMAIN fields \cup DOMAIN st[id] |->
        IF k \in DOMAIN fields THEN fields[k] ELSE st[id][k]]]

\* variant: the insert replaces a document that holds the same email
addDocKeyedByEmail(st, id, data) ==
  IF \E k \in DOMAIN st : st[k].email = data.email
    THEN [k \in DOMAIN st |-> IF st[k].email = data.email THEN data ELSE st[k]]
    ELSE [k \in DOMAIN st \cup {id} |-> IF k = id THEN data ELSE st[k]]

\* slip: the insert always goes to the first document id
addDocAtFirstId(st, id, data) ==
  [k \in DOMAIN st \cup {1} |-> IF k = 1 THEN data ELSE st[k]]

\* addDoc(collection, data) under a fresh document id
addDoc(st, id, data) ==
  [k \in DOMAIN st \cup {id} |-> IF k = id THEN data ELSE st[k]]

\* slip: the reactivation does not refresh subscribedAt
updatedSubscriberKeepsDate(email, t) ==
  [active |-> TRUE, subscribed |-> TRUE,
   unsubscribeToken |-> generateUnsubscribeToken(email)]

\* addSubscriber, reactivation branch: the fields written over the record
updatedSubscriber(email, t) ==
  [active |-> TRUE, subscribed |-> TRUE, subscribedAt |-> t,
   unsubscribeToken |-> generateUnsubscribeToken(email)]

\* slip: the stored token is the digest of the email alone
newSubscriberUnkeyedToken(email, source, t) ==
  [email |-> email, subscribedAt |-> t, active |-> TRUE, subscribed |-> TRUE,
   unsubscribeToken |-> Sha256Hex(email), source |-> source]

\* addSubscriber, insert branch: the new document
newSubscriber(email, source, t) ==
  [email |-> email, subscribedAt |-> t, active |-> TRUE, subscribed |-> TRUE,
   unsubscribeToken |-> generateUnsubscribeToken(email), source |-> source]

\* slip: the deactivation does not stamp unsubscribedAt
deactivationNoStamp(t) == [active |-> FALSE]

\* unsubscribeByEmail / unsubscribeByToken: the fields written over the record
deactivation(t) == [active |-> FALSE, unsubscribedAt |-> t]

\* the ids in ascending order, as a query returns its documents
RECURSIVE InOrder(_)
InOrder(ids) ==
  IF ids = {} THEN <<>>
  ELSE <<FirstDoc(ids)>> \o InOrder(ids \ {FirstDoc(ids)})

\* slip: the query has no where('active', '==', true)
getActiveSubscribersUnfiltered(st, throws) ==
  [i \in 1..Cardinality(DOMAIN st) |-> st[InOrder(DOMAIN st)[i]]]

\* getActiveSubscribers: the documents with active == true; a throwing
\* getDocs is caught and answered as []
getActiveSubscribers(st, throws) ==
  IF throws THEN <<>>
  ELSE LET ids == InOrder({id \in DOMAIN st : st[id].active = TRUE})
       IN  [i \in 1..Len(ids) |-> st[ids[i]]]

\* unsubscribeByToken: token !== expectedToken
tokenRejected(email, token) == token # generateUnsubscribeToken(email)

Result(ok, msg) == [success |-> ok, message |-> msg]

----------------------------------------------------------------------------
(* API routes: result -> HTTP status *)

\* slip: the pattern is capitalised, so no message matches it
subscribeStatusCaseSlip(result) ==
  IF result.success THEN 200
  ELSE IF Includes(result.message, "Already subscribed") THEN 409 ELSE 400

\* POST /api/subscribe
subscribeStatus(result) ==
  IF result.success THEN 200
  ELSE IF Includes(result.message, "already subscribed") THEN 409 ELSE 400

\* POST /api/unsubscribe
unsubscribePostStatus(result) ==
  IF result.success THEN 200
  ELSE IF Includes(result.message, "not found") THEN 404
  ELSE IF Includes(result.message, "already unsubscribed") THEN 409 ELSE 400

\* slip: the pattern for 404 is capitalised, so no message matches it
unsubscribeGetStatusCaseSlip(result) ==
  IF result.success THEN 200
  ELSE IF Includes(result.message, "Invalid token") THEN 403
  ELSE IF Includes(result.message, "Not found") THEN 404 ELSE 400

\* GET /api/unsubscribe
unsubscribeGetStatus(result) ==
  IF result.success THEN 200
  ELSE IF Includes(result.message, "Invalid token") THEN 403
  ELSE IF Includes(result.message, "not found") THEN 404 ELSE 400

RouteSubscribe       == "POST /api/subscribe"
RouteUnsubscribePost == "POST /api/unsubscribe"
RouteUnsubscribeGet  == "GET /api/unsubscribe"
RouteSubscribeGet    == "GET /api/subscribe"

statusOf(route, result) ==
  CASE route = RouteSubscribe       -> subscribeStatus(result)
    [] route = RouteUnsubscribePost -> unsubscribePostStatus(result)
    [] route = RouteUnsubscribeGet  -> unsubscribeGetStatus(result)

----------------------------------------------------------------------------
(* Requests *)

NoResult == Result(FALSE, "")

Idle ==
  [pc |-> "idle", route |-> "none", input |-> <<>>,
   email |-> "", token |-> "", source |-> "",
   began |-> 0, before |-> <<>>, existing |-> {}, pending |-> <<>>,
   called |-> FALSE, reads |-> 0, writes |-> 0,
   lookupThrew |-> FALSE, writeThrew |-> FALSE,
   result |-> NoResult, status |-> 0, key |-> "", text |-> "",
   total |-> 0, subscribers |-> <<>>]

\* what is remembered of a completed request
Summary(r) ==
  [route |-> IF r.called THEN r.route ELSE "none", email |-> r.email,
   status |-> r.status]

\* a worker takes a new request when it holds none or has answered the last one
Free(p) == req[p].pc \in {"idle", "done"}

\* the single worker keeps a journal: the store as each request found it and
\* the request answered before it
Journals(p) == p \in SeqProcs

Retire(p) ==
  IF Journals(p) /\ req[p].pc = "done" THEN {Summary(req[p])} ELSE prev

Fresh(p, route) ==
  [Idle EXCEPT !.route = route, !.began = now,
               !.before = IF Journals(p) THEN store ELSE <<>>]

\* NextResponse.json({message|error: text}, {status})
Respond(r, status, key, text) ==
  [r EXCEPT !.pc = "done", !.status = status, !.key = key, !.text = text]

\* the route's answer to a service result
Answer(r, result) ==
  Respond([r EXCEPT !.result = result],
          statusOf(r.route, result),
          IF result.success THEN "message" ELSE "error",
          result.message)

\* the newsletter script before it starts
RunIdle ==
  [pc |-> "idle", by |-> "", subscribers |-> <<>>, k |-> 1, busy |-> FALSE,
   log |-> <<>>, trail |-> <<>>, news |-> "", fetch |-> "", template |-> "",
   notices |-> <<>>, exitCode |-> 0, exited |-> FALSE]

\* the scheduler before the `schedule` command: the clock counts the hours
\* of local time from a Sunday 00:00
SchedOff ==
  [pc |-> "off", clock |-> 0, armedAt |-> 0, due |-> 0, runs |-> <<>>]

Init ==
  /\ sched = SchedOff
  /\ env = [UNSUBSCRIBE_SECRET |-> SetSecret]
  /\ store = <<>>
  /\ now = 0
  /\ req = [p \in AllProcs |-> Idle]
  /\ prev = {}
  /\ run = RunIdle

\* time passes
Tick ==
  /\ now < MaxTime
  /\ now' = now + 1
  /\ UNCHANGED <<env, store, req, prev, run, sched>>

----------------------------------------------------------------------------
(* POST /api/subscribe -> addSubscriber(email, 'website') *)

\* the handler up to its first store call: parse the body, validate the email
SubscribePOST(p, emails) ==
  /\ Free(p)
  /\ \E b \in Bodies(emails) :
       LET r == [Fresh(p, RouteSubscribe) EXCEPT !.input = b] IN
       req' = [req EXCEPT ![p] =
         IF ~b.json
           THEN Respond(r, 500, "error", MsgInternal)
         ELSE IF "email" \notin DOMAIN b.body \/ b.body.email = ""
                 \/ ~emailRegexTest(b.body.email)
           THEN Respond(r, 400, "error", MsgInvalidEmail)
         ELSE [r EXCEPT !.pc = "lookup", !.called = TRUE,
                        !.email = b.body.email, !.source = "website"]]
  /\ prev' = Retire(p)
  /\ UNCHANGED <<env, store, now, run, sched>>

\* addSubscriber after `await getSubscriberByEmail(email)`: ex is what it
\* returned, t what Timestamp.now() reads
addSubscriberFound(r, ex, t) ==
  IF ex # {} /\ (CHOOSE e \in ex : TRUE).data.active
    THEN Answer([r EXCEPT !.existing = ex], Result(FALSE, MsgAlreadySubscribed))
  ELSE IF ex # {}
    THEN [r EXCEPT !.pc = "write", !.existing = ex,
                   !.pending = updatedSubscriber(r.email, t)]
  ELSE [r EXCEPT !.pc = "write", !.existing = ex,
                 !.pending = newSubscriber(r.email, r.source, t)]

\* addSubscriber: getSubscriberByEmail returns, and the code up to the write
AddSubscriberLookup(p, fails) ==
  /\ req[p].pc = "lookup"
  /\ req[p].route = RouteSubscribe
  /\ \E threw \in fails :
       LET r  == [req[p] EXCEPT !.reads = @ + 1, !.lookupThrew = threw]
           ex == getSubscriberByEmail(store, r.email, threw)
       IN
       req' = [req EXCEPT ![p] = addSubscriberFound(r, ex, now)]
  /\ UNCHANGED <<env, store, now, prev, run, sched>>

\* addSubscriber: updateDoc or addDoc returns, and the code to the response
AddSubscriberWrite(p, fails) ==
  /\ req[p].pc = "write"
  /\ req[p].route = RouteSubscribe
  /\ \E threw \in fails :
       LET r == [req[p] EXCEPT !.writes = @ + 1, !.writeThrew = threw] IN
       IF threw
         THEN /\ req' = [req EXCEPT ![p] =
                   Answer(r, Result(FALSE, MsgSubscribeFailed))]
              /\ store' = store
       ELSE IF r.existing # {}
         THEN /\ store' = updateDoc(store, (CHOOSE e \in r.existing : TRUE).id,
                                    r.pending)
              /\ req' = [req EXCEPT ![p] =
                   Answer(r, Result(TRUE, MsgResubscribed))]
       ELSE \E id \in DocIds \ DOMAIN store :
              /\ store' = addDoc(store, id, r.pending)
              /\ req' = [req EXCEPT ![p] =
                   Answer(r, Result(TRUE, MsgSubscribed))]
  /\ UNCHANGED <<env, now, prev, run, sched>>

----------------------------------------------------------------------------
(* POST /api/unsubscribe -> unsubscribeByEmail(email) *)

UnsubscribePOST(p, emails) ==
  /\ Free(p)
  /\ \E b \in Bodies(emails) :
       LET r == [Fresh(p, RouteUnsubscribePost) EXCEPT !.input = b] IN
       req' = [req EXCEPT ![p] =
         IF ~b.json
           THEN Respond(r, 500, "error", MsgInternal)
         ELSE IF "email" \notin DOMAIN b.body \/ b.body.email = ""
                 \/ ~emailRegexTest(b.body.email)
           THEN Respond(r, 400, "error", MsgInvalidEmail)
         ELSE [r EXCEPT !.pc = "lookup", !.called = TRUE,
                        !.email = b.body.email]]
  /\ prev' = Retire(p)
  /\ UNCHANGED <<env, store, now, run, sched>>

\* unsubscribeByEmail after `await getSubscriberByEmail(email)`
unsubscribeByEmailFound(r, ex, t) ==
  IF ex = {}
    THEN Answer(r, Result(FALSE, MsgNotFound))
  ELSE IF ~(CHOOSE e \in ex : TRUE).data.active
    THEN Answer([r EXCEPT !.existing = ex],
                Result(FALSE, MsgAlreadyUnsubscribed))
  ELSE [r EXCEPT !.pc = "write", !.existing = ex, !.pending = deactivation(t)]

\* unsubscribeByEmail: getSubscriberByEmail returns, and the code up to the write
UnsubscribeByEmailLookup(p, fails) ==
  /\ req[p].pc = "lookup"
  /\ req[p].route = RouteUnsubscribePost
  /\ \E threw \in fails :
       LET r  == [req[p] EXCEPT !.reads = @ + 1, !.lookupThrew = threw]
           ex == getSubscriberByEmail(store, r.email, threw)
       IN
       req' = [req EXCEPT ![p] = unsubscribeByEmailFound(r, ex, now)]
  /\ UNCHANGED <<env, store, now, prev, run, sched>>

\* slip: the success return is missing and the function ends with the
\* answer of its catch clause
unsubscribeByEmailWrittenFalls(r, threw) ==
  Answer(r, Result(FALSE, MsgUnsubscribeFailed))

\* unsubscribeByEmail after `await updateDoc(...)`: success when it returned,
\* the catch clause's failure when it threw
unsubscribeByEmailWritten(r, threw) ==
  IF threw THEN Answer(r, Result(FALSE, MsgUnsubscribeFailed))
           ELSE Answer(r, Result(TRUE, MsgUnsubscribed))

\* unsubscribeByEmail: updateDoc returns, and the code to the response
UnsubscribeByEmailWrite(p, fails) ==
  /\ req[p].pc = "write"
  /\ req[p].route = RouteUnsubscribePost
  /\ \E threw \in fails :
       LET r == [req[p] EXCEPT !.writes = @ + 1, !.writeThrew = threw] IN
       /\ store' = IF threw THEN store
                   ELSE updateDoc(store, (CHOOSE e \in r.existing : TRUE).id,
                                  r.pending)
       /\ req' = [req EXCEPT ![p] = unsubscribeByEmailWritten(r, threw)]
  /\ UNCHANGED <<env, now, prev, run, sched>>

----------------------------------------------------------------------------
(* GET /api/unsubscribe?token=&email= -> unsubscribeByToken(email, token) *)

\* the handler up to its first store call: the parameters, then the token check
unsubscribeGetHandler(r, q) ==
  IF \/ "token" \notin DOMAIN q \/ "email" \notin DOMAIN q
     \/ q.token = "" \/ q.email = ""
    THEN Respond(r, 400, "error", MsgMissingParam)
  ELSE LET c == [r EXCEPT !.called = TRUE, !.email = q.email,
                          !.token = q.token] IN
       IF tokenRejected(q.email, q.token)
         THEN Answer(c, Result(FALSE, MsgInvalidToken))
         ELSE [c EXCEPT !.pc = "lookup"]

UnsubscribeGET(p, queries) ==
  /\ Free(p)
  /\ \E q \in queries :
       req' = [req EXCEPT ![p] =
         unsubscribeGetHandler(
           [Fresh(p, RouteUnsubscribeGet) EXCEPT !.input = q], q)]
  /\ prev' = Retire(p)
  /\ UNCHANGED <<env, store, now, run, sched>>

\* slip: no early return for an inactive record, which is written again
unsubscribeByTokenFoundRestamps(r, ex, t) ==
  IF ex = {}
    THEN Answer(r, Result(FALSE, MsgNotFound))
    ELSE [r EXCEPT !.pc = "write", !.existing = ex, !.pending = deactivation(t)]

\* slip: the token presented is also compared with the one stored on the record
unsubscribeByTokenFoundChecksStored(r, ex, t) ==
  IF ex = {}
    THEN Answer(r, Result(FALSE, MsgNotFound))
  ELSE IF (CHOOSE e \in ex : TRUE).data.unsubscribeToken # r.token
    THEN Answer([r EXCEPT !.existing = ex], Result(FALSE, MsgInvalidToken))
  ELSE IF ~(CHOOSE e \in ex : TRUE).data.active
    THEN Answer([r EXCEPT !.existing = ex],
                Result(TRUE, MsgAlreadyUnsubscribed))
  ELSE [r EXCEPT !.pc = "write", !.existing = ex, !.pending = deactivation(t)]

\* unsubscribeByToken after `await getSubscriberByEmail(email)`
unsubscribeByTokenFound(r, ex, t) ==
  IF ex = {}
    THEN Answer(r, Result(FALSE, MsgNotFound))
  ELSE IF ~(CHOOSE e \in ex : TRUE).data.active
    THEN Answer([r EXCEPT !.existing = ex],
                Result(TRUE, MsgAlreadyUnsubscribed))
  ELSE [r EXCEPT !.pc = "write", !.existing = ex, !.pending = deactivation(t)]

\* unsubscribeByToken(email, token) as a function of the store it runs on,
\* the store answering every call: the result it returns
unsubscribeByToken(st, email, token, t) ==
  IF tokenRejected(email, token)
    THEN Result(FALSE, MsgInvalidToken)
    ELSE LET c == unsubscribeByTokenFound(
                    [Idle EXCEPT !.route = RouteUnsubscribeGet,
                                 !.email = email, !.token = token],
                    getSubscriberByEmail(st, email, FALSE), t)
         IN  IF c.pc = "write" THEN Result(TRUE, MsgUnsubscribed) ELSE c.result

\* unsubscribeByToken: getSubscriberByEmail returns, and the code up to the write
UnsubscribeByTokenLookup(p, fails) ==
  /\ req[p].pc = "lookup"
  /\ req[p].route = RouteUnsubscribeGet
  /\ \E threw \in fails :
       LET r  == [req[p] EXCEPT !.reads = @ + 1, !.lookupThrew = threw]
           ex == getSubscriberByEmail(store, r.email, threw)
       IN
       req' = [req EXCEPT ![p] = unsubscribeByTokenFound(r, ex, now)]
  /\ UNCHANGED <<env, store, now, prev, run, sched>>

\* unsubscribeByToken: updateDoc returns, and the code to the response
UnsubscribeByTokenWrite(p, fails) ==
  /\ req[p].pc = "write"
  /\ req[p].route = RouteUnsubscribeGet
  /\ \E threw \in fails :
       LET r == [req[p] EXCEPT !.writes = @ + 1, !.writeThrew = threw] IN
       IF threw
         THEN /\ req' = [req EXCEPT ![p] =
                   Answer(r, Result(FALSE, MsgUnsubscribeFailed))]
              /\ store' = store
         ELSE /\ store' = updateDoc(store, (CHOOSE e \in r.existing : TRUE).id,
                                    r.pending)
              /\ req' = [req EXCEPT ![p] =
                   Answer(r, Result(TRUE, MsgUnsubscribed))]
  /\ UNCHANGED <<env, now, prev, run, sched>>

----------------------------------------------------------------------------
(* GET /api/subscribe -> getActiveSubscribers() *)

\* the handler: one query, answered with the count and the list
SubscribeGET(p, fails) ==
  /\ Free(p)
  /\ \E threw \in fails :
       LET r    == [Fresh(p, RouteSubscribeGet) EXCEPT
                      !.called = TRUE, !.reads = 1, !.lookupThrew = threw]
           subs == getActiveSubscribers(store, threw)
       IN
       req' = [req EXCEPT ![p] =
         [Respond(r, 200, "total", "") EXCEPT
            !.total = Len(subs),
            !.subscribers =
               [i \in 1..Len(subs) |->
                  [email |-> subs[i].email,
                   subscribedAt |-> toISOString(subs[i].subscribedAt)]]]]
  /\ prev' = Retire(p)
  /\ UNCHANGED <<env, store, now, run, sched>>

----------------------------------------------------------------------------
(* The newsletter scripts and the unsubscribe link *)

Automation   == "newsletter-automation"
TestWorkflow == "test-workflow"
Components   == {Automation, TestWorkflow}

\* the earlier script of the automation, run by the GitHub Actions workflow
Standalone   == "newsletter-automation-standalone"
Automations  == {Automation, Standalone}

AppUrl      == "https://q.app"
SenderEmail == "s@b.c"
TestSecret  == "test-secret-key-for-development"

\* !CONFIG.UNSUBSCRIBE_SECRET: unset or empty (env is the one setting the web
\* app and the scripts are run with)
secretMissing ==
  "UNSUBSCRIBE_SECRET" \notin DOMAIN env \/ env["UNSUBSCRIBE_SECRET"] = ""

\* newsletter-automation.js: email + CONFIG.UNSUBSCRIBE_SECRET, no default;
\* an undefined secret is concatenated as the text "undefined"
generateUnsubscribeTokenAutomation(email) ==
  Sha256Hex(email \o (IF "UNSUBSCRIBE_SECRET" \in DOMAIN env
                        THEN env["UNSUBSCRIBE_SECRET"] ELSE "undefined"))

\* the test workflow: CONFIG.UNSUBSCRIBE_SECRET || "test-secret-key-for-development"
generateUnsubscribeTokenTest(email) ==
  Sha256Hex(email \o (IF secretMissing THEN TestSecret
                        ELSE env["UNSUBSCRIBE_SECRET"]))

\* the link a script puts into the mail for a subscriber
unsubscribeUrl(by, email) ==
  AppUrl \o "/unsubscribe?token="
    \o (IF by = TestWorkflow THEN generateUnsubscribeTokenTest(email)
                              ELSE generateUnsubscribeTokenAutomation(email))
    \o "&email=" \o encodeURIComponent(email)

\* sub.active && sub.active.booleanValue
activeTrue(d) == "active" \in DOMAIN d /\ d.active = TRUE

\* getSubscribers of newsletter-automation.js: the emails of the documents
\* with active true, in document order; the sender alone when there is none
\* or when the fetch throws
getSubscribers(st, throws) ==
  LET ids == InOrder({id \in DOMAIN st : activeTrue(st[id])}) IN
  IF throws \/ ids = <<>> THEN <<SenderEmail>>
  ELSE [i \in 1..Len(ids) |-> st[ids[i]].email]

\* the ways a fetch of the subscribers goes: the store answers, the request
\* or the parsing throws, and, in the standalone script, TEST_MODE is on or
\* the Firebase project id or API key is not configured
FetchOutcomes == {"ok", "threw", "test-mode", "unconfigured"}

\* fields.active?.booleanValue !== false && email && subscribedAt
isActive(d) ==
  /\ ~("active" \in DOMAIN d /\ d.active = FALSE)
  /\ "email" \in DOMAIN d /\ d.email # ""
  /\ "subscribedAt" \in DOMAIN d

\* getSubscribers of the standalone script: the sender alone in test mode,
\* without Firebase configuration, on an error and when no document passes;
\* else the emails of the documents that pass isActive, in document order
getSubscribersStandalone(st, how) ==
  LET ids == InOrder({id \in DOMAIN st : isActive(st[id])}) IN
  IF how # "ok" \/ ids = <<>> THEN <<SenderEmail>>
  ELSE [i \in 1..Len(ids) |-> st[ids[i]].email]

\* the test workflow: getSubscribers without the fallback, and
\* sendTestNewsletter, which mails subscribers[0] only
testRecipients(st, throws) ==
  LET ids == InOrder({id \in DOMAIN st : activeTrue(st[id])}) IN
  IF throws \/ ids = <<>> THEN <<>> ELSE <<st[ids[1]].email>>

\* sendNewsletter at the head of its loop: the next recipient's mail is built
\* and handed to sendSMTPEmail, or the list is exhausted
loopHead(r) ==
  IF r.k <= Len(r.subscribers)
    THEN [r EXCEPT !.pc = "sending", !.busy = TRUE,
                   !.log = Append(@, [ev |-> "start", k |-> r.k,
                                      to |-> r.subscribers[r.k],
                                      url |-> unsubscribeUrl(r.by, r.subscribers[r.k]),
                                      ok |-> FALSE])]
    ELSE [r EXCEPT !.pc = "done", !.busy = FALSE]

\* slip: a failed delivery ends the loop
afterAttemptAborts(r, ok) ==
  LET seen == [r EXCEPT !.busy = FALSE,
                 !.log = Append(@, [r.log[Len(r.log)] EXCEPT
                                      !.ev = "end", !.ok = ok])]
  IN  IF ok THEN loopHead([seen EXCEPT !.k = @ + 1])
      ELSE [seen EXCEPT !.pc = "done"]

\* sendNewsletter after `await sendSMTPEmail(...)` returned or threw: the
\* outcome is logged and the loop goes on with the next recipient
afterAttempt(r, ok) ==
  loopHead([r EXCEPT !.busy = FALSE, !.k = @ + 1,
              !.log = Append(@, [r.log[Len(r.log)] EXCEPT
                                   !.ev = "end", !.ok = ok])])

\* what fetchAINews gives: articles, an empty list, or a rejection
NewsOutcomes == {"articles", "none", "failed"}
GoodNews     == {"articles"}

\* the template file is there, or may be missing
Readable  == {TRUE}
MayBeGone == BOOLEAN

\* a step of main begins
begin(r, step) == [r EXCEPT !.trail = Append(@, step)]

\* process.exit(exitCode) in the finally clause of main
exit(r) == [r EXCEPT !.exited = TRUE, !.busy = FALSE]

\* slip: the catch clause leaves the exit code as it was
caughtKeepsExitCode(r) ==
  IF r.by = TestWorkflow
    THEN exit([r EXCEPT !.pc = "failed"])
    ELSE begin([r EXCEPT !.pc = "notifying"],
               IF r.by = Automation THEN "sendErrorNotification"
                                    ELSE "sendNewsletter")

\* the catch clause of main: the automation awaits sendErrorNotification and
\* sets exitCode = 1; the standalone script awaits sendNewsletter to the
\* sender alone and exits with 1; the test workflow sets exitCode = 1 and
\* exits
caught(r) ==
  IF r.by = TestWorkflow
    THEN exit([r EXCEPT !.pc = "failed", !.exitCode = 1])
    ELSE begin([r EXCEPT !.pc = "notifying", !.exitCode = 1],
               IF r.by = Automation THEN "sendErrorNotification"
                                    ELSE "sendNewsletter")

\* the send loop is over: main logs completion and exits with exitCode
completed(r) == IF r.pc = "done" THEN exit(r) ELSE r

\* main up to its first await: validateConfig of the automation scripts
\* throws on a missing secret, the test workflow falls back to its defaults; then
\* fetchAINews is awaited
StartRun(by) ==
  /\ run.pc = "idle"
  /\ run' =
       IF by \in Automations
         THEN IF secretMissing
                THEN caught(begin([run EXCEPT !.by = by], "validateConfig"))
                ELSE begin(begin([run EXCEPT !.by = by, !.pc = "news"],
                                 "validateConfig"), "fetchAINews")
         ELSE begin([run EXCEPT !.by = by, !.pc = "news"], "fetchAINews")
  /\ UNCHANGED <<env, store, now, req, prev, sched>>

\* slip: an empty list of articles goes on to content generation
afterNewsGoesOn(r, outcome) ==
  IF outcome = "failed" THEN caught(r)
  ELSE IF r.by \in Automations
    THEN begin([r EXCEPT !.pc = "content"], "generateNewsletterContent")
  ELSE IF outcome = "none" THEN caught(r)
  ELSE begin([r EXCEPT !.pc = "subscribers"], "getSubscribers")

\* main after `await fetchAINews()`: a rejection is caught; on no articles
\* the automation returns (exit code 0) and the test workflow throws; else
\* the automation scripts await generateNewsletterContent, the test workflow
\* getSubscribers
afterNews(r, outcome) ==
  IF outcome = "failed" THEN caught(r)
  ELSE IF outcome = "none" /\ r.by = Automation
    THEN exit([r EXCEPT !.pc = "skipped"])
  ELSE IF outcome = "none" /\ r.by = TestWorkflow THEN caught(r)
  ELSE IF r.by \in Automations
    THEN begin([r EXCEPT !.pc = "content"], "generateNewsletterContent")
    ELSE begin([r EXCEPT !.pc = "subscribers"], "getSubscribers")

\* fetchAINews resolves or rejects; that of the standalone script returns
\* its built-in articles
NewsReturns(outcomes) ==
  /\ run.pc = "news"
  /\ \E outcome \in (IF run.by = Standalone THEN GoodNews ELSE outcomes) :
       run' = afterNews([run EXCEPT !.news = outcome], outcome)
  /\ UNCHANGED <<env, store, now, req, prev, sched>>

\* fs.readFileSync(templatePath, "utf-8") returns or throws
readTemplate(r, readable) ==
  [r EXCEPT !.template = IF readable THEN "read" ELSE "gone"]

\* sendNewsletter / sendTestNewsletter up to the first delivery: the template
\* is read, then the loop begins; the automation lets a read error reach
\* main, sendTestNewsletter catches it and returns; sendNewsletter of the
\* standalone script reads no template
startSending(r, readable) ==
  IF r.by = Standalone THEN completed(loopHead(begin(r, "sendNewsletter")))
  ELSE
  LET s == readTemplate(begin(r, IF r.by = Automation
                                   THEN "sendNewsletter"
                                   ELSE "sendTestNewsletter"), readable)
  IN  IF readable THEN completed(loopHead(s))
      ELSE IF r.by = Automation THEN caught(s)
      ELSE exit([s EXCEPT !.pc = "done"])

\* main after `await getSubscribers()`: the automation scripts go into
\* sendNewsletter with the list; the test workflow returns on an empty list
\* and else awaits generateNewsletterContent
afterFetch(r, st, how, readable) ==
  IF r.by = Automation
    THEN startSending([r EXCEPT !.subscribers =
                                  getSubscribers(st, how = "threw")],
                      readable)
  ELSE IF r.by = Standalone
    THEN startSending([r EXCEPT !.subscribers =
                                  getSubscribersStandalone(st, how)],
                      readable)
  ELSE IF testRecipients(st, how = "threw") = <<>>
    THEN exit([r EXCEPT !.pc = "skipped"])
    ELSE begin([r EXCEPT !.subscribers = testRecipients(st, how = "threw"),
                         !.pc = "content"],
               "generateNewsletterContent")

\* main after `await generateNewsletterContent(...)`, which never throws:
\* the automation scripts await getSubscribers, the test workflow goes into
\* sendTestNewsletter
afterContent(r, readable) ==
  IF r.by \in Automations
    THEN begin([r EXCEPT !.pc = "subscribers"], "getSubscribers")
    ELSE startSending(r, readable)

\* generateNewsletterContent returns
ContentReturns(templates) ==
  /\ run.pc = "content"
  /\ \E readable \in templates : run' = afterContent(run, readable)
  /\ UNCHANGED <<env, store, now, req, prev, sched>>

\* the store answers the script's read of the collection, or the read fails
FetchReturns(fails, templates) ==
  /\ run.pc = "subscribers"
  /\ \E throws \in fails : \E readable \in templates :
     \E how \in (IF run.by = Standalone THEN FetchOutcomes
                 ELSE {"ok", "threw"}) :
       /\ how = "threw" <=> throws
       /\ run' = afterFetch([run EXCEPT !.fetch = how], store, how, readable)
  /\ UNCHANGED <<env, store, now, req, prev, sched>>

\* sendSMTPEmail returns (ok) or throws
SendReturns ==
  /\ run.pc = "sending" /\ run.busy
  /\ \E ok \in BOOLEAN : run' = completed(afterAttempt(run, ok))
  /\ UNCHANGED <<env, store, now, req, prev, sched>>

\* sendErrorNotification: its one sendSMTPEmail returns or throws, the error
\* is logged, and main exits
NotifyReturns ==
  /\ run.pc = "notifying"
  /\ \E ok \in BOOLEAN :
       run' = exit([run EXCEPT !.pc = "failed",
                      !.notices = Append(@, [to |-> SenderEmail,
                                             ok |-> ok])])
  /\ UNCHANGED <<env, store, now, req, prev, sched>>

\* app/unsubscribe/page.tsx opened at url: the request it sends to the API
\* when the URL holds both a token and an email, "" when it shows the form
pageFetchUrl(url) ==
  IF searchParamsGet(url, "token") # "" /\ searchParamsGet(url, "email") # ""
    THEN "/api/unsubscribe?token="
           \o encodeURIComponent(searchParamsGet(url, "token"))
           \o "&email=" \o encodeURIComponent(searchParamsGet(url, "email"))
    ELSE ""

\* the mails delivered so far
Delivered == {i \in 1..Len(run.log) : run.log[i].ev = "end" /\ run.log[i].ok}

\* a recipient follows the link of a delivered mail: the page opens and calls
\* GET /api/unsubscribe, which runs up to its first store call
FollowLink(p) ==
  /\ Free(p)
  /\ \E i \in Delivered :
       LET api == pageFetchUrl(run.log[i].url) IN
       /\ api # ""
       /\ req' = [req EXCEPT ![p] =
            unsubscribeGetHandler(
              [Fresh(p, RouteUnsubscribeGet) EXCEPT
                 !.input = [link |-> run.log[i].url, to |-> run.log[i].to,
                            by |-> run.by]],
              [token |-> searchParamsGet(api, "token"),
               email |-> searchParamsGet(api, "email")])]
  /\ prev' = Retire(p)
  /\ UNCHANGED <<env, store, now, run, sched>>

----------------------------------------------------------------------------
(* newsletter_scheduler.js, the `schedule` command *)

MaxWeeks == 5         \* the scheduler is followed for MaxWeeks weeks

DayHours    == 24
WeekHours   == 7 * DayHours   \* 7 * 24 * 60 * 60 * 1000 ms
RetryHours  == 1              \* 60 * 60 * 1000 ms
Monday      == 1              \* Date.prototype.getDay() of a Monday
NineOClock  == 9              \* setHours(9, 0, 0, 0)

Horizon == MaxWeeks * WeekHours

\* how long a generation takes, in hours
Durations == {0, 1}

\* Date.prototype.getDay(): 0 is Sunday
getDay(t) == (t \div DayHours) % 7

\* Date.prototype.getHours()
getHours(t) == t % DayHours

\* (1 - now.getDay() + 7) % 7 || 7
daysUntilMonday(t) ==
  LET d == (1 - getDay(t) + 7) % 7 IN IF d = 0 THEN 7 ELSE d

\* scheduleWeeklyNewsletter, the time the timer is set for: the date of now
\* moved on by daysUntilMonday, at 09:00, and a week more when now is a
\* Monday at or after 09:00
nextMonday(t) ==
  LET at9 == (t - getHours(t)) + daysUntilMonday(t) * DayHours + NineOClock IN
  IF getDay(t) = Monday /\ getHours(t) >= NineOClock
    THEN at9 + 7 * DayHours
    ELSE at9

\* nextMonday.getTime() - now.getTime()
timeUntilNextRun(t) == nextMonday(t) - t

\* scheduleWeeklyNewsletter called at the clock's time: the timer is set
scheduleWeeklyNewsletter(s) ==
  [s EXCEPT !.pc = "armed", !.armedAt = s.clock,
            !.due = s.clock + timeUntilNextRun(s.clock)]

\* `node newsletter_scheduler.js schedule`
ScheduleCommand ==
  /\ sched.pc = "off"
  /\ sched' = scheduleWeeklyNewsletter(sched)
  /\ UNCHANGED <<env, store, now, req, prev, run>>

\* the timer fires: runNewsletterGeneration spawns the generator
TimerFires ==
  /\ sched.pc = "armed"
  /\ sched.due <= Horizon
  /\ sched' = [sched EXCEPT !.pc = "running", !.clock = sched.due,
                  !.runs = Append(@, [at |-> sched.due, end |-> sched.due,
                                      state |-> "running"])]
  /\ UNCHANGED <<env, store, now, req, prev, run>>

\* the timer callback after `await this.runNewsletterGeneration()`: on
\* success scheduleWeeklyNewsletter is to be called in 7 days, on failure in
\* one hour
afterGeneration(s, ok) ==
  [s EXCEPT !.pc = IF ok THEN "waiting" ELSE "retry",
            !.due = s.clock + (IF ok THEN WeekHours ELSE RetryHours)]

\* the generator closes with code 0 (resolve), or with another code or a
\* spawn error (reject)
GenerationCloses ==
  /\ sched.pc = "running"
  /\ \E ok \in BOOLEAN : \E d \in Durations :
       sched' = afterGeneration(
                  [sched EXCEPT !.clock = @ + d,
                     !.runs[Len(sched.runs)] =
                        [@ EXCEPT !.end = sched.clock + d,
                                  !.state = IF ok THEN "ok" ELSE "failed"]],
                  ok)
  /\ UNCHANGED <<env, store, now, req, prev, run>>

\* the second timer fires: scheduleWeeklyNewsletter is called again
RearmFires ==
  /\ sched.pc \in {"waiting", "retry"}
  /\ sched.due <= Horizon
  /\ sched' = scheduleWeeklyNewsletter([sched EXCEPT !.clock = sched.due])
  /\ UNCHANGED <<env, store, now, req, prev, run>>

----------------------------------------------------------------------------
(* Specifications *)

AllEmails == ValidEmails \cup BadEmails

\* the query strings about one address
QueriesOfA == Queries({EmailA})

\* requests one at a time, the store never fails
Next ==
  \/ Tick
  \/ \E p \in SeqProcs : SubscribePOST(p, AllEmails)
  \/ \E p \in SeqProcs : AddSubscriberLookup(p, NoFail)
  \/ \E p \in SeqProcs : AddSubscriberWrite(p, NoFail)
  \/ \E p \in SeqProcs : UnsubscribePOST(p, {EmailA} \cup BadEmails)
  \/ \E p \in SeqProcs : UnsubscribeByEmailLookup(p, NoFail)
  \/ \E p \in SeqProcs : UnsubscribeByEmailWrite(p, NoFail)
  \/ \E p \in SeqProcs : UnsubscribeGET(p, QueriesOfA)
  \/ \E p \in SeqProcs : UnsubscribeByTokenLookup(p, NoFail)
  \/ \E p \in SeqProcs : UnsubscribeByTokenWrite(p, NoFail)
  \/ \E p \in SeqProcs : SubscribeGET(p, NoFail)

Spec == Init /\ [][Next]_vars

\* the query strings with both parameters about one address, the token being
\* the right one, one made with another secret, or empty; and the empty query
QueriesOfAFew ==
  {<<>>} \cup
  {[token |-> t, email |-> EmailA] :
     t \in {Sha256Hex(EmailA \o SetSecret), Sha256Hex(EmailA \o DevSecret), ""}}

\* requests one at a time, store calls may throw
NextFail ==
  \/ Tick
  \/ \E p \in SeqProcs : SubscribePOST(p, {EmailA})
  \/ \E p \in SeqProcs : AddSubscriberLookup(p, MayFail)
  \/ \E p \in SeqProcs : AddSubscriberWrite(p, MayFail)
  \/ \E p \in SeqProcs : UnsubscribePOST(p, {EmailA})
  \/ \E p \in SeqProcs : UnsubscribeByEmailLookup(p, MayFail)
  \/ \E p \in SeqProcs : UnsubscribeByEmailWrite(p, MayFail)
  \/ \E p \in SeqProcs : UnsubscribeGET(p, QueriesOfAFew)
  \/ \E p \in SeqProcs : UnsubscribeByTokenLookup(p, MayFail)
  \/ \E p \in SeqProcs : UnsubscribeByTokenWrite(p, MayFail)

SpecFail == Init /\ [][NextFail]_vars

\* requests of several workers interleave at the store calls, within one
\* reading of the clock; one address
NextConc ==
  \/ \E p \in Procs : SubscribePOST(p, {EmailA})
  \/ \E p \in Procs : AddSubscriberLookup(p, NoFail)
  \/ \E p \in Procs : AddSubscriberWrite(p, NoFail)
  \/ \E p \in Procs : UnsubscribePOST(p, {EmailA})
  \/ \E p \in Procs : UnsubscribeByEmailLookup(p, NoFail)
  \/ \E p \in Procs : UnsubscribeByEmailWrite(p, NoFail)
  \/ \E p \in Procs : UnsubscribeGET(p, QueriesOfA)
  \/ \E p \in Procs : UnsubscribeByTokenLookup(p, NoFail)
  \/ \E p \in Procs : UnsubscribeByTokenWrite(p, NoFail)

SpecConc == Init /\ [][NextConc]_vars

\* subscribe and unsubscribe-by-email requests of several workers interleave
\* at the store calls while the clock advances; one address
NextRace ==
  \/ Tick
  \/ \E p \in Procs : SubscribePOST(p, {EmailA})
  \/ \E p \in Procs : AddSubscriberLookup(p, NoFail)
  \/ \E p \in Procs : AddSubscriberWrite(p, NoFail)
  \/ \E p \in Procs : UnsubscribePOST(p, {EmailA})
  \/ \E p \in Procs : UnsubscribeByEmailLookup(p, NoFail)
  \/ \E p \in Procs : UnsubscribeByEmailWrite(p, NoFail)

SpecRace == Init /\ [][NextRace]_vars

\* the web app and the scripts under one setting of UNSUBSCRIBE_SECRET, set
\* or unset
InitMail ==
  /\ sched = SchedOff
  /\ env \in {<<>>, [UNSUBSCRIBE_SECRET |-> SetSecret]}
  /\ store = <<>>
  /\ now = 0
  /\ req = [p \in AllProcs |-> Idle]
  /\ prev = {}
  /\ run = RunIdle

MailProcs == {1}

\* people subscribe, a script mails the subscribers, recipients follow the
\* link of the mail they got
NextMail ==
  \/ \E p \in MailProcs : SubscribePOST(p, ValidEmails)
  \/ \E p \in MailProcs : AddSubscriberLookup(p, NoFail)
  \/ \E p \in MailProcs : AddSubscriberWrite(p, NoFail)
  \/ \E by \in Components : StartRun(by)
  \/ NewsReturns(GoodNews)
  \/ ContentReturns(Readable)
  \/ FetchReturns(NoFail, Readable)
  \/ SendReturns
  \/ NotifyReturns
  \/ \E p \in MailProcs : FollowLink(p)
  \/ \E p \in MailProcs : UnsubscribeByTokenLookup(p, NoFail)
  \/ \E p \in MailProcs : UnsubscribeByTokenWrite(p, NoFail)

SpecMail == InitMail /\ [][NextMail]_vars

\* every delivery attempt of the script comes back
SpecMailFair == SpecMail /\ WF_vars(SendReturns)

\* a script runs, with every outcome of its steps, while people subscribe
\* and unsubscribe
NextJob ==
  \/ \E p \in MailProcs : SubscribePOST(p, ValidEmails)
  \/ \E p \in MailProcs : AddSubscriberLookup(p, NoFail)
  \/ \E p \in MailProcs : AddSubscriberWrite(p, NoFail)
  \/ \E p \in MailProcs : UnsubscribePOST(p, ValidEmails)
  \/ \E p \in MailProcs : UnsubscribeByEmailLookup(p, NoFail)
  \/ \E p \in MailProcs : UnsubscribeByEmailWrite(p, NoFail)
  \/ \E by \in Components : StartRun(by)
  \/ NewsReturns(NewsOutcomes)
  \/ ContentReturns(MayBeGone)
  \/ FetchReturns(MayFail, MayBeGone)
  \/ SendReturns
  \/ NotifyReturns

SpecJob == InitMail /\ [][NextJob]_vars

\* the documents a script may find in the collection: those the web app
\* writes, active or deactivated, and documents with an email and a
\* subscription time but no `active` field
SnapshotDocs ==
  UNION {{newSubscriber(e, "website", 0),
          [active |-> FALSE, unsubscribedAt |-> 0] @@ newSubscriber(e, "website", 0),
          [email |-> e, subscribedAt |-> 0]} : e \in ValidEmails}

\* the collections of at most MaxDocs such documents, one per address
Snapshots ==
  UNION {{st \in [1..n -> SnapshotDocs] :
            \A i \in 1..n : \A j \in 1..n : i # j => st[i].email # st[j].email}
         : n \in 0..MaxDocs}

InitFetch ==
  /\ sched = SchedOff
  /\ env = [UNSUBSCRIBE_SECRET |-> SetSecret]
  /\ store \in Snapshots
  /\ now = 0
  /\ req = [p \in AllProcs |-> Idle]
  /\ prev = {}
  /\ run = RunIdle

\* an automation script runs against a collection
NextFetch ==
  \/ \E by \in Automations : StartRun(by)
  \/ NewsReturns(GoodNews)
  \/ ContentReturns(Readable)
  \/ FetchReturns(MayFail, Readable)
  \/ SendReturns

SpecFetch == InitFetch /\ [][NextFetch]_vars

\* the `schedule` command given at any hour of a week
InitSched ==
  /\ sched \in {[SchedOff EXCEPT !.clock = h] : h \in 0..(WeekHours - 1)}
  /\ env = [UNSUBSCRIBE_SECRET |-> SetSecret]
  /\ store = <<>>
  /\ now = 0
  /\ req = [p \in AllProcs |-> Idle]
  /\ prev = {}
  /\ run = RunIdle

NextSched ==
  \/ ScheduleCommand
  \/ TimerFires
  \/ GenerationCloses
  \/ RearmFires

SpecSched == InitSched /\ [][NextSched]_vars

----------------------------------------------------------------------------
(* Properties *)

\* hash(email || secret) under the secret the server is configured with
ExpectedToken(email) ==
  Sha256Hex(email \o (IF "UNSUBSCRIBE_SECRET" \in DOMAIN env
                        THEN env["UNSUBSCRIBE_SECRET"] ELSE DevSecret))

\* the request the single worker has answered
Answered(r, route) == r.pc = "done" /\ r.called /\ r.route = route

RecordsOf(st, email) == {id \in DOMAIN st : st[id].email = email}

\* every document but id is the same in st and in old
OthersKept(st, old, id) ==
  /\ DOMAIN st = DOMAIN old
  /\ \A j \in DOMAIN old \ {id} : st[j] = old[j]

\* the document keeps every field of old but those named
FieldsKept(doc, old, changed) ==
  \A k \in DOMAIN old \ changed : k \in DOMAIN doc /\ doc[k] = old[k]

\* C1 (as stated): unsubscribeByToken(email, t) succeeds if and only if t is
\* hash(email || secret); any other token fails with InvalidToken.
C1_SucceedsIffTokenMatches ==
  \A p \in SeqProcs :
    Answered(req[p], RouteUnsubscribeGet) =>
      /\ req[p].result.success <=> (req[p].token = ExpectedToken(req[p].email))
      /\ req[p].token # ExpectedToken(req[p].email)
           => req[p].result = Result(FALSE, MsgInvalidToken)

\* C1 (amended): unsubscribeByToken(email, t) succeeds only if t is
\* hash(email || secret); every other token fails with InvalidToken whether or
\* not a record for the email exists, before any store call; with the right
\* token the call fails with NotFound when its lookup finds no record, and
\* succeeds when the lookup finds one and the write, if any, goes through.
C1_TokenIsNecessary ==
  \A p \in SeqProcs :
    LET r     == req[p]
        found == RecordsOf(r.before, r.email) # {} /\ ~r.lookupThrew
    IN
    Answered(r, RouteUnsubscribeGet) =>
      /\ r.result.success => r.token = ExpectedToken(r.email)
      /\ r.token # ExpectedToken(r.email)
           => /\ r.result = Result(FALSE, MsgInvalidToken)
              /\ r.reads = 0 /\ r.writes = 0 /\ store = r.before
      /\ r.token = ExpectedToken(r.email) /\ ~found
           => r.result = Result(FALSE, MsgNotFound)
      /\ r.token = ExpectedToken(r.email) /\ found /\ ~r.writeThrew
           => r.result.success

\* a wrong token is presented for an address that has a record, and refused
C1_Witness ==
  \E p \in SeqProcs :
    /\ Answered(req[p], RouteUnsubscribeGet)
    /\ req[p].token # ExpectedToken(req[p].email)
    /\ req[p].token # ""
    /\ RecordsOf(store, req[p].email) # {}
    /\ ~req[p].result.success

\* C2: GET /unsubscribe with a token and an email, the token not the expected
\* one for the email, answers 403 with an `error` body.
C2_WrongTokenIs403 ==
  \A p \in SeqProcs :
    ( /\ Answered(req[p], RouteUnsubscribeGet)
      /\ req[p].token # ExpectedToken(req[p].email) )
      => req[p].status = 403 /\ req[p].key = "error"

\* C3: subscribe of a well-formed email without a record answers 200, and the
\* store then holds exactly one record for the email: active, subscribedAt
\* the time of the call, the token hash(email || secret), the given source.
C3_FirstSubscribeInserts ==
  \A p \in SeqProcs :
    LET r == req[p] IN
    ( Answered(r, RouteSubscribe) /\ RecordsOf(r.before, r.email) = {} )
      => /\ r.status = 200 /\ r.key = "message" /\ r.result.success
         /\ Cardinality(RecordsOf(store, r.email)) = 1
         /\ \A id \in RecordsOf(store, r.email) :
              /\ store[id].active = TRUE
              /\ r.began <= store[id].subscribedAt
              /\ store[id].subscribedAt <= now
              /\ store[id].unsubscribeToken = ExpectedToken(r.email)
              /\ store[id].source = r.source
              /\ DOMAIN r.before = DOMAIN store \ {id}
              /\ \A j \in DOMAIN r.before : store[j] = r.before[j]

\* a first subscription made when the clock has advanced, next to another record
C3_Witness ==
  \E p \in SeqProcs :
    /\ Answered(req[p], RouteSubscribe)
    /\ RecordsOf(req[p].before, req[p].email) = {}
    /\ req[p].before # <<>>
    /\ req[p].status = 200
    /\ req[p].began > 0

\* two subscribe calls in a row for one email
SubscribedTwice(r) ==
  /\ Answered(r, RouteSubscribe)
  /\ \E q \in prev : q.route = RouteSubscribe /\ q.email = r.email

\* C4 (as stated): of two subscribe calls in a row for one email the second
\* fails with AlreadySubscribed (409) and leaves the store unchanged, and
\* exactly one of the two succeeds.
C4_ExactlyOneSucceeds ==
  \A p \in SeqProcs :
    SubscribedTwice(req[p]) =>
      /\ req[p].status = 409
      /\ store = req[p].before
      /\ \A q \in prev : (q.status = 200) # (req[p].status = 200)

\* C4 (amended): of two subscribe calls in a row for one email the second
\* fails with AlreadySubscribed (409) and leaves the store unchanged; the
\* first either succeeds or, the email being subscribed already, fails with
\* 409 as well, so at most one of the two succeeds.
C4_SecondIsRefused ==
  \A p \in SeqProcs :
    SubscribedTwice(req[p]) =>
      /\ req[p].status = 409 /\ req[p].key = "error"
      /\ req[p].result = Result(FALSE, MsgAlreadySubscribed)
      /\ store = req[p].before
      /\ \A q \in prev : q.status \in {200, 409}

\* the first of the two calls succeeded, the second is refused
C4_Witness ==
  \E p \in SeqProcs :
    /\ SubscribedTwice(req[p])
    /\ \E q \in prev : q.status = 200
    /\ req[p].status = 409

\* subscribe right after a successful unsubscribe (by email or by token) of
\* the same email
ResubscribedAfterUnsubscribe(r) ==
  /\ Answered(r, RouteSubscribe)
  /\ \E q \in prev : /\ q.route \in {RouteUnsubscribePost, RouteUnsubscribeGet}
                     /\ q.email = r.email
                     /\ q.status = 200

\* C5: a successful unsubscribe followed by subscribe on the same email
\* reactivates: one record for the email, the same one (id, email and source
\* kept), active again, subscribedAt reset to the time of the resubscribe.
C5_Reactivation ==
  \A p \in SeqProcs :
    LET r == req[p] IN
    ResubscribedAfterUnsubscribe(r) =>
      /\ r.status = 200 /\ r.result = Result(TRUE, MsgResubscribed)
      /\ Cardinality(RecordsOf(store, r.email)) = 1
      /\ RecordsOf(store, r.email) = RecordsOf(r.before, r.email)
      /\ \A id \in RecordsOf(store, r.email) :
           /\ OthersKept(store, r.before, id)
           /\ ~r.before[id].active
           /\ store[id].active = TRUE
           /\ FieldsKept(store[id], r.before[id],
                         {"active", "subscribed", "subscribedAt",
                          "unsubscribeToken"})
           /\ r.began <= store[id].subscribedAt
           /\ store[id].subscribedAt <= now

\* a reactivation that moved subscribedAt
C5_Witness ==
  \E p \in SeqProcs :
    /\ ResubscribedAfterUnsubscribe(req[p])
    /\ \E id \in RecordsOf(store, req[p].email) :
         /\ id \in DOMAIN req[p].before
         /\ store[id].subscribedAt > req[p].before[id].subscribedAt
         /\ store[id].active

\* the request found a record of its email, and it was inactive
FoundInactive(r) ==
  /\ RecordsOf(r.before, r.email) # {}
  /\ \A id \in RecordsOf(r.before, r.email) : ~r.before[id].active

\* C6: on an inactive record unsubscribeByToken with the right token answers
\* success (200) and unsubscribeByEmail answers AlreadyInactive (409); neither
\* changes the record, so the token unsubscribe can be repeated at will.
C6_InactiveUnsubscribe ==
  \A p \in SeqProcs :
    LET r == req[p] IN
    /\ ( /\ Answered(r, RouteUnsubscribeGet) /\ FoundInactive(r)
         /\ r.token = ExpectedToken(r.email) )
         => /\ r.status = 200 /\ r.result.success /\ r.key = "message"
            /\ store = r.before
    /\ ( Answered(r, RouteUnsubscribePost) /\ FoundInactive(r) )
         => /\ r.status = 409 /\ r.key = "error"
            /\ r.result = Result(FALSE, MsgAlreadyUnsubscribed)
            /\ store = r.before

\* the token unsubscribe repeated on an inactive record, at a later time
\* than the one stamped on it
C6_Witness ==
  \E p \in SeqProcs :
    /\ Answered(req[p], RouteUnsubscribeGet)
    /\ FoundInactive(req[p])
    /\ req[p].status = 200
    /\ \E q \in prev : /\ q.route = RouteUnsubscribeGet
                       /\ q.email = req[p].email /\ q.status = 200
    /\ \E id \in RecordsOf(store, req[p].email) :
         store[id].unsubscribedAt < req[p].began

\* C7: with requests one at a time and a store that does not fail, the store
\* holds at most one record per email.
C7_OneRecordPerEmail ==
  \A id1 \in DOMAIN store : \A id2 \in DOMAIN store :
    store[id1].email = store[id2].email => id1 = id2

\* two addresses have a record, one of them unsubscribed and subscribed again
C7_Witness ==
  /\ Cardinality(DOMAIN store) = 2
  /\ \E id \in DOMAIN store :
       "unsubscribedAt" \in DOMAIN store[id] /\ store[id].active

\* two subscribe requests for one email each saw no record
BothSawNoRecord(p, q) ==
  /\ p # q
  /\ Answered(req[p], RouteSubscribe) /\ Answered(req[q], RouteSubscribe)
  /\ req[p].email = req[q].email
  /\ req[p].reads = 1 /\ req[q].reads = 1
  /\ req[p].existing = {} /\ req[q].existing = {}

\* C8: two concurrent subscribe requests for an email without a record can
\* both look up not-found before either inserts; both then insert and both
\* answer success, leaving two records with the email.
C8_RaceDuplicates ==
  \A p \in Procs : \A q \in Procs :
    BothSawNoRecord(p, q) =>
      /\ req[p].status = 200 /\ req[q].status = 200
      /\ Cardinality(RecordsOf(store, req[p].email)) >= 2

\* the race has happened: two records hold the same email
C8_Witness ==
  /\ \E p \in Procs : \E q \in Procs : BothSawNoRecord(p, q)
  /\ \E id1 \in DOMAIN store : \E id2 \in DOMAIN store :
       id1 # id2 /\ store[id1].email = store[id2].email

\* C9: a store call that throws during POST /subscribe, POST /unsubscribe or
\* GET /unsubscribe is answered with the generic internal error, never as
\* success, NotFound, AlreadySubscribed, AlreadyInactive or InvalidInput.
C9_StoreFailureIsInternalError ==
  \A p \in SeqProcs :
    ( req[p].pc = "done" /\ (req[p].lookupThrew \/ req[p].writeThrew) )
      => /\ req[p].status = 500
         /\ req[p].key = "error"
         /\ req[p].text = MsgInternal

\* C10: POST /unsubscribe with a well-formed email answers 404 without a
\* record, 409 on an inactive record and 200 on an active one, which becomes
\* inactive with unsubscribedAt stamped; 404 and 409 leave the store unchanged.
C10_UnsubscribeByEmail ==
  \A p \in SeqProcs :
    LET r   == req[p]
        ids == RecordsOf(r.before, r.email)
    IN
    Answered(r, RouteUnsubscribePost) =>
      /\ ids = {} => r.status = 404 /\ store = r.before
      /\ FoundInactive(r) => r.status = 409 /\ store = r.before
      /\ \A id \in ids :
           r.before[id].active =>
             /\ r.status = 200 /\ r.key = "message"
             /\ OthersKept(store, r.before, id)
             /\ store[id].active = FALSE
             /\ "unsubscribedAt" \in DOMAIN store[id]
             /\ r.began <= store[id].unsubscribedAt
             /\ store[id].unsubscribedAt <= now
             /\ FieldsKept(store[id], r.before[id], {"active", "unsubscribedAt"})

\* an active record is unsubscribed by email while another address stays active
C10_Witness ==
  \E p \in SeqProcs :
    /\ Answered(req[p], RouteUnsubscribePost)
    /\ req[p].status = 200
    /\ \E id \in DOMAIN store :
         store[id].email # req[p].email /\ store[id].active
    /\ \E id \in RecordsOf(store, req[p].email) : ~store[id].active

\* C11: unsubscribeByToken with the correct token for an email that has no
\* record fails with NotFound, GET /unsubscribe answers 404 with an `error`
\* body, and no record is created.
C11_RightTokenNoRecord ==
  \A p \in SeqProcs :
    LET r == req[p] IN
    ( /\ Answered(r, RouteUnsubscribeGet)
      /\ r.token = ExpectedToken(r.email)
      /\ RecordsOf(r.before, r.email) = {} )
      => /\ r.result = Result(FALSE, MsgNotFound)
         /\ r.status = 404 /\ r.key = "error"
         /\ r.writes = 0
         /\ store = r.before

\* the right token is presented for an address without a record, while
\* another address has one
C11_Witness ==
  \E p \in SeqProcs :
    /\ Answered(req[p], RouteUnsubscribeGet)
    /\ req[p].token = ExpectedToken(req[p].email)
    /\ RecordsOf(req[p].before, req[p].email) = {}
    /\ req[p].before # <<>>
    /\ req[p].status = 404

\* the values a stored unsubscribeToken field may be changed to
StoredTokens == {"", "x", Sha256Hex(EmailA \o DevSecret)}

\* the store with every record's unsubscribeToken field set to x
WithStoredToken(st, x) ==
  [id \in DOMAIN st |-> [st[id] EXCEPT !.unsubscribeToken = x]]

\* C12: unsubscribeByToken decides on (email, token, secret) before any store
\* access: a wrong token causes no store read and no store write, and on a
\* store that differs only in the stored unsubscribeToken fields the same
\* (email, token) gets the same result.
C12_DecisionIgnoresStoredToken ==
  \A p \in SeqProcs :
    LET r == req[p] IN
    Answered(r, RouteUnsubscribeGet) =>
      /\ r.token # ExpectedToken(r.email)
           => r.reads = 0 /\ r.writes = 0 /\ store = r.before
      /\ unsubscribeByToken(r.before, r.email, r.token, r.began) = r.result
      /\ \A x \in StoredTokens :
           unsubscribeByToken(WithStoredToken(r.before, x), r.email, r.token,
                              r.began) = r.result

\* the right token is accepted for a record whose stored token could differ
C12_Witness ==
  \E p \in SeqProcs :
    /\ Answered(req[p], RouteUnsubscribeGet)
    /\ req[p].token = ExpectedToken(req[p].email)
    /\ req[p].result = Result(TRUE, MsgUnsubscribed)
    /\ \E x \in StoredTokens :
         WithStoredToken(req[p].before, x) # req[p].before

\* a string without whitespace and without "@", at least one character long
Plain(s) ==
  /\ Len(s) >= 1
  /\ \A i \in 1..Len(s) : SubSeq(s, i, i) \notin {" ", "\t", "\n", "\r", "@"}

\* local-part @ domain . suffix, no whitespace
SimplePattern(s) ==
  \E i \in 1..Len(s) : \E j \in 1..Len(s) :
    /\ i < j
    /\ s = SubSeq(s, 1, i - 1) \o "@" \o SubSeq(s, i + 1, j - 1) \o "."
             \o SubSeq(s, j + 1, Len(s))
    /\ Plain(SubSeq(s, 1, i - 1))
    /\ Plain(SubSeq(s, i + 1, j - 1))
    /\ Plain(SubSeq(s, j + 1, Len(s)))

\* the body parsed, and it holds no email or one that is not of the pattern
BadSubscribeBody(b) ==
  /\ b.json
  /\ "email" \in DOMAIN b.body => ~SimplePattern(b.body.email)

\* C13: POST /subscribe with a missing email or one that does not match the
\* simple pattern answers 400 with an `error` body, with no store lookup and
\* no store write; a lookup is made only for an email of the pattern.
C13_InvalidEmailIs400 ==
  \A p \in SeqProcs :
    LET r == req[p] IN
    r.route = RouteSubscribe =>
      /\ BadSubscribeBody(r.input)
           => /\ r.pc = "done"
              /\ r.status = 400 /\ r.key = "error"
              /\ ~r.called /\ r.reads = 0 /\ r.writes = 0
              /\ store = r.before
      /\ (r.called \/ r.reads > 0 \/ r.writes > 0)
           => /\ "email" \in DOMAIN r.input.body
              /\ SimplePattern(r.input.body.email)
              /\ r.email = r.input.body.email

\* an address with whitespace in it is refused while the store holds a record
C13_Witness ==
  \E p \in SeqProcs :
    /\ req[p].route = RouteSubscribe
    /\ req[p].pc = "done"
    /\ "email" \in DOMAIN req[p].input.body
    /\ req[p].input.body.email # ""
    /\ \E i \in 1..Len(req[p].input.body.email) :
         SubSeq(req[p].input.body.email, i, i) = " "
    /\ req[p].status = 400
    /\ store # <<>>

\* the state of an email in a store
Phase(st, email) ==
  IF RecordsOf(st, email) = {} THEN "absent"
  ELSE IF \E id \in RecordsOf(st, email) : st[id].active THEN "active"
  ELSE "inactive"

\* worker p answers, in this step, a request of one of the routes for email
AnswersNow(p, routes, email) ==
  /\ req[p].pc # "done" /\ req'[p].pc = "done"
  /\ req'[p].route \in routes /\ req'[p].email = email
  /\ req'[p].status = 200

\* C14: per email the only state changes are absent -> active (subscribe),
\* active -> inactive (unsubscribe by email or by token) and inactive ->
\* active (subscribe); no step removes a record or changes its email.
C14_Lifecycle ==
  [][ /\ \A id \in DOMAIN store :
           id \in DOMAIN store' /\ store'[id].email = store[id].email
      /\ \A e \in ValidEmails :
           LET a == Phase(store, e)
               b == Phase(store', e)
           IN
           a # b =>
             \/ /\ a \in {"absent", "inactive"} /\ b = "active"
                /\ \E p \in SeqProcs : AnswersNow(p, {RouteSubscribe}, e)
             \/ /\ a = "active" /\ b = "inactive"
                /\ \E p \in SeqProcs :
                     AnswersNow(p, {RouteUnsubscribePost, RouteUnsubscribeGet}, e)
    ]_vars

\* a record that went through all three changes, next to another record
C14_Witness ==
  \E p \in SeqProcs : \E id \in DOMAIN store :
    /\ Answered(req[p], RouteSubscribe)
    /\ req[p].result = Result(TRUE, MsgResubscribed)
    /\ store[id].email = req[p].email
    /\ store[id].active
    /\ "unsubscribedAt" \in DOMAIN store[id]
    /\ Cardinality(DOMAIN store) = 2

\* C15: in every reachable state a record with active = false has
\* unsubscribedAt set, at or after its subscribedAt (the clock never runs
\* backwards).
C15_InactiveStampedAfterSubscribed ==
  \A id \in DOMAIN store :
    ~store[id].active =>
      /\ "unsubscribedAt" \in DOMAIN store[id]
      /\ store[id].unsubscribedAt >= store[id].subscribedAt

\* the request was made by following the link of a mail
ViaLink(r) == "link" \in DOMAIN r.input

\* the addresses as they are written in a URL
UrlEncoded ==
  (EmailA :> "a%40b.c") @@ (EmailB :> "d%2Be%40b.c") @@ (SenderEmail :> "s%40b.c")

\* every link the automation has built has the documented form
LinkForm ==
  run.by = Automation =>
    \A i \in 1..Len(run.log) :
      run.log[i].url =
        AppUrl \o "/unsubscribe?token=" \o ExpectedToken(run.log[i].to)
               \o "&email=" \o UrlEncoded[run.log[i].to]

\* C16: the link the automation builds for e is
\* {APP_URL}/unsubscribe?token={token}&email={urlencoded e}; under one
\* UNSUBSCRIBE_SECRET, following it presents e and the expected token of e,
\* passes the token check and, e being an active subscriber, deactivates
\* the record of e and nothing else.
C16_LinkRoundTrip ==
  [][ /\ LinkForm'
      /\ \A p \in MailProcs :
           LET r == req'[p] IN
           (ViaLink(r) /\ r.input.by = Automation) =>
             /\ r.called
             /\ r.email = r.input.to
             /\ r.token = ExpectedToken(r.input.to)
             /\ r.result # Result(FALSE, MsgInvalidToken)
             /\ ( /\ r # req[p] /\ r.pc = "done"
                  /\ \E id \in RecordsOf(store, r.input.to) : store[id].active )
                  => /\ r.status = 200
                     /\ r.result = Result(TRUE, MsgUnsubscribed)
                     /\ DOMAIN store' = DOMAIN store
                     /\ \A id \in DOMAIN store :
                          IF store[id].email = r.input.to
                            THEN /\ ~store'[id].active
                                 /\ FieldsKept(store'[id], store[id],
                                               {"active", "unsubscribedAt"})
                            ELSE store'[id] = store[id]
    ]_vars

\* the link mailed to the address with a "+" was followed and its record
\* deactivated, the other subscriber staying active
C16_Witness ==
  \E p \in MailProcs :
    /\ ViaLink(req[p]) /\ req[p].input.by = Automation
    /\ req[p].input.to = EmailB
    /\ req[p].pc = "done" /\ req[p].status = 200
    /\ \E id \in RecordsOf(store, EmailB) : ~store[id].active
    /\ \E id \in RecordsOf(store, EmailA) : store[id].active

\* C17: the token generators of the web service, the newsletter automation
\* and the test workflow return the same token for every email under every
\* setting of UNSUBSCRIBE_SECRET, unset included, so the web service accepts
\* the token of a link whichever component issued it.
C17_IssuedTokensAccepted ==
  /\ \A i \in 1..Len(run.log) :
       searchParamsGet(run.log[i].url, "token")
         = generateUnsubscribeToken(run.log[i].to)
  /\ \A p \in MailProcs :
       (ViaLink(req[p]) /\ req[p].pc = "done")
         => req[p].result # Result(FALSE, MsgInvalidToken)

\* C18: the batch send makes one delivery attempt per entry of the recipient
\* list, in list order, each started after the one before has finished; a
\* failed attempt is not retried and does not stop the loop, which reaches
\* the end of the list.
C18_OneAttemptPerRecipient ==
  /\ [](/\ \A i \in 1..Len(run.log) :
             /\ run.log[i].ev = (IF i % 2 = 1 THEN "start" ELSE "end")
             /\ run.log[i].k = (i + 1) \div 2
             /\ run.log[i].k <= Len(run.subscribers)
             /\ run.log[i].to = run.subscribers[run.log[i].k]
        /\ run.pc = "sending"
             => run.busy /\ Len(run.log) % 2 = 1 /\ ENABLED SendReturns
        /\ run.pc = "done"
             => ~run.busy /\ Len(run.log) = 2 * Len(run.subscribers))
  /\ ((run.pc = "sending") ~> (run.pc = "done"))

\* a run over two recipients is through: the first delivery failed, the
\* second went out
C18_Witness ==
  /\ run.pc = "done"
  /\ Len(run.subscribers) = 2
  /\ Len(run.log) = 4
  /\ ~run.log[2].ok /\ run.log[4].ok

\* C19: GET /subscribe answers with the active records of the store: total
\* is their number and the list holds their emails, no others.
C19_ListsActiveSubscribers ==
  \A p \in SeqProcs :
    LET r      == req[p]
        active == {id \in DOMAIN r.before : r.before[id].active}
    IN
    Answered(r, RouteSubscribeGet) =>
      /\ r.status = 200
      /\ r.total = Cardinality(active)
      /\ Len(r.subscribers) = r.total
      /\ \A id \in active :
           \E i \in 1..Len(r.subscribers) :
             r.subscribers[i].email = r.before[id].email
      /\ \A i \in 1..Len(r.subscribers) :
           \E id \in active : r.before[id].email = r.subscribers[i].email
      /\ store = r.before

\* the listing left out an unsubscribed record and showed the active one
C19_Witness ==
  \E p \in SeqProcs :
    /\ Answered(req[p], RouteSubscribeGet)
    /\ req[p].total = 1
    /\ \E id \in DOMAIN store : ~store[id].active
    /\ \E id \in DOMAIN store : store[id].active

\* C20: right after an unsubscribe request for an email (by email or by
\* token) is answered with success, no record with that email is active,
\* duplicate records included.
C20_NoActiveRecordAfterUnsubscribe ==
  [][ \A p \in Procs :
        ( /\ req'[p] # req[p]
          /\ req'[p].pc = "done" /\ req'[p].called
          /\ req'[p].route \in {RouteUnsubscribePost, RouteUnsubscribeGet}
          /\ req'[p].status = 200 )
          => \A id \in RecordsOf(store', req'[p].email) : ~store'[id].active
    ]_vars

\* the request inserted a new record and answered success
Inserted(r) ==
  /\ Answered(r, RouteSubscribe)
  /\ r.existing = {}
  /\ r.result = Result(TRUE, MsgSubscribed)

\* C21: whatever the interleaving of the lookups and writes of subscribe and
\* unsubscribe requests on one email, responses and store are those of some
\* sequential execution of the requests: no sequential execution inserts
\* twice for one email, so the store never holds two records of an email and
\* no two requests both answer with a first subscription of it.
C21_AsIfSequential ==
  /\ \A p \in Procs : \A q \in Procs :
       (p # q /\ Inserted(req[p]) /\ Inserted(req[q]))
         => req[p].email # req[q].email
  /\ \A e \in ValidEmails : Cardinality(RecordsOf(store, e)) <= 1

\* C22: a lookup that fails during subscribe is not taken for 'no record':
\* the request inserts nothing, so the store is as the request found it and
\* holds no second record for the email.
C22_FailedLookupInsertsNothing ==
  \A p \in SeqProcs :
    LET r == req[p] IN
    (r.route = RouteSubscribe /\ r.lookupThrew) =>
      /\ r.writes = 0
      /\ r.pc = "done" => store = r.before
      /\ Cardinality(RecordsOf(store, r.email))
           <= Cardinality(RecordsOf(r.before, r.email))

\* the addresses with a record in st that is not active
Inactive(st) == {st[id].email : id \in {i \in DOMAIN st : ~st[i].active}}

\* the delivery attempt a step begins, if it begins one
Attempts(old, new) ==
  IF Len(new.log) > Len(old.log) /\ new.log[Len(new.log)].ev = "start"
    THEN {new.log[Len(new.log)]} ELSE {}

\* C23: while unsubscribe requests interleave with a run of the automation,
\* no delivery attempt begins for an address whose record is inactive at
\* that moment.
C23_NoAttemptToInactive ==
  [][run'.by = Automation =>
       \A a \in Attempts(run, run') : a.to \notin Inactive(store')]_vars

\* the automation's news fetch came back with no articles
NoArticles == run.by = Automation /\ run.news = "none"

\* C25: when the automation's news fetch returns no articles, the run has
\* ended with exit code 0, it attempted no delivery and no notification, and
\* it started neither content generation nor the subscriber fetch.
C25_NoArticlesNoSend ==
  NoArticles =>
    /\ run.exited /\ run.exitCode = 0
    /\ run.log = <<>> /\ run.notices = <<>>
    /\ run.subscribers = <<>>
    /\ run.trail = <<"validateConfig", "fetchAINews">>

\* a run met no articles while the store holds an active subscriber
C25_Witness ==
  /\ NoArticles /\ run.exited
  /\ \E id \in DOMAIN store : store[id].active

\* an error reached main of the automation
ErrorReachedMain ==
  secretMissing \/ run.news = "failed" \/ run.template = "gone"

\* C30: a run of the automation exits with code 1 exactly when an error
\* reached main (configuration invalid, news fetch failed, template
\* unreadable); then exactly one notification to SENDER_EMAIL was attempted
\* before the exit, whatever its outcome, and otherwise none; failed
\* deliveries alone leave the exit code at 0.
C30_ExitCode ==
  (run.by = Automation /\ run.exited) =>
    /\ run.exitCode = 1 <=> ErrorReachedMain
    /\ run.exitCode \in {0, 1}
    /\ run.exitCode = 1 =>
         /\ Len(run.notices) = 1 /\ run.notices[1].to = SenderEmail
         /\ run.trail[Len(run.trail)] = "sendErrorNotification"
    /\ run.exitCode = 0 => run.notices = <<>>
    /\ (~ErrorReachedMain /\ \E i \in 1..Len(run.log) :
                                 run.log[i].ev = "end" /\ ~run.log[i].ok)
         => run.exitCode = 0

\* a run whose template was unreadable exited with 1 after a notification
\* that failed
C30_Witness ==
  /\ run.by = Automation /\ run.exited /\ run.exitCode = 1
  /\ run.template = "gone"
  /\ ~run.notices[1].ok

\* the addresses with a record in st whose active field is true
ActiveIn(st) == {st[id].email : id \in {i \in DOMAIN st : activeTrue(st[i])}}

\* the addresses with a record in st that is inactive or has no active field
NotActiveIn(st) ==
  {st[id].email : id \in {i \in DOMAIN st : ~activeTrue(st[i])}}

\* the recipient list of the run is the fallback
FallbackUsed == run.subscribers = <<SenderEmail>>

\* C24: after the fetch of a run, every recipient is the email of a record
\* with active true in the fetched collection or the fallback SENDER_EMAIL;
\* the fallback is used exactly when the fetch failed or gave no active
\* record; the list is never empty and holds no email of a record that is
\* inactive or has no active field.
C24_RecipientsAreActive ==
  (run.by \in Automations /\ run.fetch # "") =>
    /\ run.subscribers # <<>>
    /\ \A i \in 1..Len(run.subscribers) :
         /\ run.subscribers[i] \in ActiveIn(store) \cup {SenderEmail}
         /\ run.subscribers[i] \notin NotActiveIn(store)
    /\ FallbackUsed <=> (run.fetch = "threw" \/ ActiveIn(store) = {})
    /\ \A i \in 1..Len(run.log) :
         run.log[i].to \in ActiveIn(store) \cup {SenderEmail}

\* the first Monday 09:00 strictly later than t
EarliestMondayNine(t) ==
  CHOOSE h \in (t + 1)..(t + WeekHours) :
    getDay(h) = Monday /\ getHours(h) = NineOClock

\* C26: whenever scheduleWeeklyNewsletter has armed the timer, it is set for
\* the earliest Monday 09:00 strictly later than the time of the call, and
\* the delay is at most 7 days.
C26_EarliestMonday ==
  sched.pc = "armed" =>
    /\ sched.due = EarliestMondayNine(sched.armedAt)
    /\ sched.due - sched.armedAt <= WeekHours

\* C27: while every generation succeeds, consecutive generation runs start
\* 7 days apart, each on a Monday at 09:00.
C27_Weekly ==
  (\A i \in 1..Len(sched.runs) : sched.runs[i].state # "failed") =>
    /\ \A i \in 1..Len(sched.runs) :
         getDay(sched.runs[i].at) = Monday
           /\ getHours(sched.runs[i].at) = NineOClock
    /\ \A i \in 1..(Len(sched.runs) - 1) :
         sched.runs[i + 1].at - sched.runs[i].at = WeekHours

\* C28: when the timer set after a failed generation fires, one hour after
\* the failure, the generation is started again.
C28_RetryAfterOneHour ==
  [][(sched.pc = "retry" /\ sched'.pc # "retry") =>
       /\ sched'.pc = "running"
       /\ sched'.clock = sched.runs[Len(sched.runs)].end + RetryHours
       /\ Len(sched'.runs) = Len(sched.runs) + 1]_vars

\* a subscribe or unsubscribe request was answered with a failure
Refused(r) ==
  /\ r.pc = "done"
  /\ r.route \in {RouteSubscribe, RouteUnsubscribePost, RouteUnsubscribeGet}
  /\ ~r.result.success

\* C29: a subscribe or unsubscribe request answered with a failure (already
\* subscribed, not found, already inactive, invalid token, invalid input or
\* a store error) has left every record of the store as it was, and it is
\* answered with an error status.
C29_FailureChangesNothing ==
  \A p \in SeqProcs :
    Refused(req[p]) =>
      /\ store = req[p].before
      /\ req[p].status # 200 /\ req[p].key = "error"

\* an unsubscribe request whose updateDoc threw was answered with a failure
\* while the record it aimed at is still active
C29_Witness ==
  \E p \in SeqProcs :
    /\ Refused(req[p]) /\ req[p].writeThrew
    /\ req[p].route = RouteUnsubscribePost
    /\ \E id \in RecordsOf(store, req[p].email) : store[id].active

====
